---- MODULE Spec2Model ----
\* Model of src/Minerador.py: a cohort of Participante processes that discover
\* each other (Init), elect a controller (Election) and then run the
\* proof-of-work challenge loop (Running) over an MQTT publish/subscribe bus.
\*
\* Each process has three kinds of threads:
\*   - the paho network thread ("dispatcher"): on_connect / on_message handlers,
\*   - the main thread: the periodic re-announcer of Participante.start,
\*   - MineradorThread workers.
\* The bus is modelled as the set of all messages published so far; any of them
\* may be handed to any connected node at any time and in any order, init,
\* voting, solution and result messages any number of times, a challenge
\* message once per miner.  SpecDuplicates also hands a challenge message
\* again, SpecMalformed and SpecOpen add messages of publishers outside the
\* cohort, and SpecElection and SpecInitLossy hand every published copy of an
\* init or voting message to each subscribed node at most once (inbox).
EXTENDS Integers, Sequences, FiniteSets, TLC

\* ---------------------------------------------------------------- bounds
MaxVote == 1          \* VoteIDs are drawn from 0..MaxVote (code: 0..65535)
SpareIds == 0         \* ClientIDs are drawn from 0..(N-1+SpareIds) (code: 0..65535)
MaxTx == 1            \* the controller stops issuing after TransactionID MaxTx
MaxDifficulty == 1    \* difficulties are drawn from 1..MaxDifficulty (code: 1..5)
MaxNonce == 1         \* a worker gives up stepping past nonce MaxNonce

\* ------------------------------------------------------- program constants
WINNER_PENDING == -1
RESULT_INVALID == 0
RESULT_VALID == 1
STATE_INIT == "Init"
STATE_ELECTION == "Election"
STATE_RUNNING == "Running"
TOPIC_INIT == "sd/init"
TOPIC_ELECTION == "sd/voting"
TOPIC_CHALLENGE == "sd/challenge"
TOPIC_SOLUTION == "sd/solution"
TOPIC_RESULT == "sd/result"

\* Python's None (client_id before on_connect, data.get of a missing field).
None == -2

\* The cohort (process set) the specifications run; N_participants is the
\* size of the cohort, given to every process on its command line.
Cohort == {"p1", "p2"}

VARIABLES
  state,                  \* self.state
  client_id,              \* self.client_id (None before on_connect)
  is_leader,              \* self.is_leader
  leader_id,              \* self.leader_id
  current_transaction_id, \* self.current_transaction_id
  known_participants,     \* self.known_participants
  election_votes,         \* self.election_votes: insertion-ordered dict, a sequence of <<ClientID, VoteID>>
  transactions_table,     \* self.transactions_table: function TransactionID -> entry
  active_miner,           \* self.active_miner: <<>> (None) or <<worker>>
  detached,               \* MineradorThread objects no longer referenced by active_miner but still alive
  connected,              \* on_connect has fired for this process
  pc,                     \* position of the dispatcher thread inside a handler
  mpc,                    \* position of the main thread inside _republish_election_message
  msgs,                   \* every message published on the bus so far
  last_challenge,         \* history: TransactionID of the last challenge message given to the node's handler
  issued,                 \* history: TransactionIDs published by _generate_next_challenge since the node's election, in order
  reconnects,             \* number of repeated on_connect firings (0 or 1)
  delivered,              \* bus: the challenge messages a miner has already been handed
  inbox                   \* bus: the copies of published messages still on their way to each
                          \* node (kept only by the specifications that hand every copy once)

vars == <<state, client_id, is_leader, leader_id, current_transaction_id,
          known_participants, election_votes, transactions_table, active_miner,
          detached, connected, pc, mpc, msgs, last_challenge, issued, reconnects,
          delivered, inbox>>

Nodes == DOMAIN state
N_participants == Cardinality(Nodes)
VoteIds == 0..MaxVote
ClientIds == 0..(N_participants - 1 + SpareIds)
Difficulties == 1..MaxDifficulty

\* ------------------------------------------------ insertion-ordered dict
HasKey(d, k) == \E i \in 1..Len(d) : d[i][1] = k
GetVal(d, k) == IF HasKey(d, k) THEN d[CHOOSE i \in 1..Len(d) : d[i][1] = k][2] ELSE None
PutVal(d, k, v) ==
  IF HasKey(d, k)
  THEN [i \in 1..Len(d) |-> IF d[i][1] = k THEN <<k, v>> ELSE d[i]]
  ELSE Append(d, <<k, v>>)

\* ------------------------------------------------------------ hash oracle
\* A solution string is "" (modelled as <<>>) or f"{tx}:{nonce}" (modelled as
\* <<tx, nonce>>).  Sha1Zeros stands for the number of leading '0' characters
\* of the SHA-1 hex digest; SHA1("") is da39a3ee..., so "" has none.
Sha1Zeros(solution_string) ==
  IF solution_string = <<>> THEN 0
  ELSE (solution_string[1] + solution_string[2]) % 3

\* Mutant of check_solution: one leading zero fewer is accepted.
check_solution_one_short(challenge, solution_string) ==
  Sha1Zeros(solution_string) >= challenge - 1

\* check_solution: hash_value.startswith('0' * challenge)
check_solution(challenge, solution_string) == Sha1Zeros(solution_string) >= challenge

\* --------------------------------------------------------------- messages
InitMsg(cid) == [topic |-> TOPIC_INIT, ClientID |-> cid]
ElectionMsg(cid, vote) == [topic |-> TOPIC_ELECTION, ClientID |-> cid, VoteID |-> vote]
ChallengeMsg(tx, ch) == [topic |-> TOPIC_CHALLENGE, TransactionID |-> tx, Challenge |-> ch]
SolutionMsg(cid, tx, sol) ==
  [topic |-> TOPIC_SOLUTION, ClientID |-> cid, TransactionID |-> tx, Solution |-> sol]
ResultMsg(cid, tx, sol, res) ==
  [topic |-> TOPIC_RESULT, ClientID |-> cid, TransactionID |-> tx, Solution |-> sol, Result |-> res]

\* data.get(field) in the handlers: None when the payload lacks the field.
Get(m, field) == IF field \in DOMAIN m THEN m[field] ELSE None

\* ------------------------------------------------------------------ Init
InitFor(cohort) ==
  /\ state = [n \in cohort |-> STATE_INIT]
  /\ client_id = [n \in cohort |-> None]
  /\ is_leader = [n \in cohort |-> FALSE]
  /\ leader_id = [n \in cohort |-> -1]
  /\ current_transaction_id = [n \in cohort |-> 0]
  /\ known_participants = [n \in cohort |-> {}]
  /\ election_votes = [n \in cohort |-> <<>>]
  /\ transactions_table = [n \in cohort |-> <<>>]
  /\ active_miner = [n \in cohort |-> <<>>]
  /\ detached = [n \in cohort |-> {}]
  /\ connected = [n \in cohort |-> FALSE]
  /\ pc = [n \in cohort |-> "idle"]
  /\ mpc = [n \in cohort |-> "idle"]
  /\ msgs = {}
  /\ last_challenge = [n \in cohort |-> None]
  /\ issued = [n \in cohort |-> <<>>]
  /\ reconnects = 0
  /\ delivered = [n \in cohort |-> {}]
  /\ inbox = [n \in cohort |-> {}]

Init == InitFor(Cohort)

\* ------------------------------------------------------------- publishing
\* _publish: json.dumps + mqtt_client.publish; the bus keeps the message.
\* A payload whose ClientID or VoteID is null is returned on by every receiver
\* before it touches any state (_handle_init_message, _handle_election_message:
\* "is None: return"), so the bus does not keep it.
Carried(m) ==
  IF m.topic \in {TOPIC_INIT, TOPIC_ELECTION} /\ None \in {m[f] : f \in DOMAIN m \ {"topic"}}
  THEN {} ELSE {m}

Publish(m) == msgs' = msgs \cup Carried(m)

\* ----------------------------------------------------- Estado I: Init
\* run_init_state, called by on_connect.
run_init_state(n) ==
  /\ state' = [state EXCEPT ![n] = STATE_INIT]
  /\ IF client_id[n] = None
     THEN \E id \in ClientIds \ {client_id[o] : o \in Nodes} :
            /\ client_id' = [client_id EXCEPT ![n] = id]
            /\ known_participants' =
                 [known_participants EXCEPT ![n] = known_participants[n] \cup {id}]
     ELSE UNCHANGED <<client_id, known_participants>>

\* on_connect (rc = 0), first firing: subscribe and run_init_state.
OnConnect(n) ==
  /\ ~connected[n]
  /\ pc[n] = "idle"
  /\ connected' = [connected EXCEPT ![n] = TRUE]
  /\ run_init_state(n)
  /\ UNCHANGED <<is_leader, leader_id, current_transaction_id, election_votes,
                 transactions_table, active_miner, detached, pc, mpc, msgs,
                 last_challenge, issued, reconnects, delivered>>

\* on_connect (rc = 0) firing again: paho's network thread (loop_start)
\* reconnects by itself after a connection loss and calls on_connect again.
Reconnect(n) ==
  /\ connected[n]
  /\ pc[n] = "idle"
  /\ reconnects = 0
  /\ reconnects' = reconnects + 1
  /\ run_init_state(n)
  /\ UNCHANGED <<is_leader, leader_id, current_transaction_id, election_votes,
                 transactions_table, active_miner, detached, connected, pc, mpc,
                 msgs, last_challenge, issued, delivered>>

\* Main thread, state == STATE_INIT: _republish_init_message.
RepublishInit(n) ==
  /\ mpc[n] = "idle"
  /\ state[n] = STATE_INIT
  /\ Publish(InitMsg(client_id[n]))
  /\ UNCHANGED <<state, client_id, is_leader, leader_id, current_transaction_id,
                 known_participants, election_votes, transactions_table,
                 active_miner, detached, connected, pc, mpc, last_challenge,
                 issued, reconnects, delivered>>

\* _handle_init_message up to and including the first statement of
\* run_election_state (self.state = STATE_ELECTION); the dict replacement
\* self.election_votes = {} is the separate step ClearVotes, because the main
\* thread can run between the two statements.
HandleInit(n, m) ==
  /\ connected[n] /\ pc[n] = "idle"
  /\ m \in msgs /\ m.topic = TOPIC_INIT
  /\ IF state[n] # STATE_INIT \/ Get(m, "ClientID") = None
     THEN UNCHANGED <<state, known_participants, pc, msgs>>
     ELSE LET kp == known_participants[n] \cup {Get(m, "ClientID")} IN
          /\ known_participants' = [known_participants EXCEPT ![n] = kp]
          /\ IF Cardinality(kp) >= N_participants
             THEN /\ Publish(InitMsg(client_id[n]))   \* three identical broadcasts
                  /\ state' = [state EXCEPT ![n] = STATE_ELECTION]
                  /\ pc' = [pc EXCEPT ![n] = "clear_votes"]
             ELSE UNCHANGED <<state, pc, msgs>>
  /\ UNCHANGED <<client_id, is_leader, leader_id, current_transaction_id,
                 election_votes, transactions_table, active_miner, detached,
                 connected, mpc, last_challenge, issued, reconnects, delivered>>

\* ------------------------------------------------- Estado II: Election
\* run_election_state, second statement: self.election_votes = {}.
ClearVotes(n) ==
  /\ pc[n] = "clear_votes"
  /\ election_votes' = [election_votes EXCEPT ![n] = <<>>]
  /\ pc' = [pc EXCEPT ![n] = "idle"]
  /\ UNCHANGED <<state, client_id, is_leader, leader_id, current_transaction_id,
                 known_participants, transactions_table, active_miner, detached,
                 connected, mpc, msgs, last_challenge, issued, reconnects, delivered>>

\* Main thread, _republish_election_message, the guard and the membership
\* test "self.client_id not in self.election_votes".
ElectionCheck(n) ==
  /\ mpc[n] = "idle"
  /\ state[n] = STATE_ELECTION
  /\ mpc' = [mpc EXCEPT ![n] =
               IF HasKey(election_votes[n], client_id[n]) THEN "get" ELSE "gen"]
  /\ UNCHANGED <<state, client_id, is_leader, leader_id, current_transaction_id,
                 known_participants, election_votes, transactions_table,
                 active_miner, detached, connected, pc, msgs, last_challenge,
                 issued, reconnects, delivered>>

\* vote_id = random.randint(0, 65535); self.election_votes[self.client_id] = vote_id
ElectionGenerate(n) ==
  /\ mpc[n] = "gen"
  /\ \E vote_id \in VoteIds :
       election_votes' = [election_votes EXCEPT
                            ![n] = PutVal(election_votes[n], client_id[n], vote_id)]
  /\ mpc' = [mpc EXCEPT ![n] = "get"]
  /\ UNCHANGED <<state, client_id, is_leader, leader_id, current_transaction_id,
                 known_participants, transactions_table, active_miner, detached,
                 connected, pc, msgs, last_challenge, issued, reconnects, delivered>>

\* vote_id = self.election_votes.get(self.client_id); publish the vote.
ElectionPublish(n) ==
  /\ mpc[n] = "get"
  /\ Publish(ElectionMsg(client_id[n], GetVal(election_votes[n], client_id[n])))
  /\ mpc' = [mpc EXCEPT ![n] = "idle"]
  /\ UNCHANGED <<state, client_id, is_leader, leader_id, current_transaction_id,
                 known_participants, election_votes, transactions_table,
                 active_miner, detached, connected, pc, last_challenge, issued,
                 reconnects, delivered>>

\* Mutant of CriteriaGreater: a tie on VoteID goes to the lower ClientID.
CriteriaGreaterLowerId(a, b) == a[1] > b[1] \/ (a[1] = b[1] /\ a[2] < b[2])

\* criteria > current_leader_criteria on Python tuples (vote_id, client_id).
CriteriaGreater(a, b) == a[1] > b[1] \/ (a[1] = b[1] /\ a[2] > b[2])

\* The for loop of _elect_leader over self.election_votes.items().
RECURSIVE ElectLoop(_, _, _, _)
ElectLoop(items, i, current_leader_criteria, leader) ==
  IF i > Len(items) THEN leader
  ELSE LET criteria == <<items[i][2], items[i][1]>> IN
       IF CriteriaGreater(criteria, current_leader_criteria)
       THEN ElectLoop(items, i + 1, criteria, items[i][1])
       ELSE ElectLoop(items, i + 1, current_leader_criteria, leader)

\* _elect_leader: the value assigned to self.leader_id.
elect_leader(votes) == ElectLoop(votes, 1, <<-1, -1>>, -1)

\* _elect_leader followed by run_challenge_state up to the controller's
\* time.sleep(2); _generate_next_challenge is the step GenerateNextChallenge.
ElectAndRun(n, votes) ==
  LET leader == elect_leader(votes) IN
  /\ leader_id' = [leader_id EXCEPT ![n] = leader]
  /\ is_leader' = [is_leader EXCEPT ![n] = (client_id[n] = leader)]
  /\ state' = [state EXCEPT ![n] = STATE_RUNNING]
  /\ IF client_id[n] = leader
     THEN /\ current_transaction_id' = [current_transaction_id EXCEPT ![n] = -1]
          /\ issued' = [issued EXCEPT ![n] = <<>>]
          /\ pc' = [pc EXCEPT ![n] = "gen_challenge"]
     ELSE UNCHANGED <<current_transaction_id, issued, pc>>

\* _handle_election_message
HandleElection(n, m) ==
  /\ connected[n] /\ pc[n] = "idle"
  /\ m \in msgs /\ m.topic = TOPIC_ELECTION
  /\ IF state[n] # STATE_ELECTION \/ Get(m, "ClientID") = None \/ Get(m, "VoteID") = None
     THEN UNCHANGED <<state, election_votes, is_leader, leader_id,
                      current_transaction_id, issued, pc>>
     ELSE LET votes == IF HasKey(election_votes[n], Get(m, "ClientID"))
                       THEN election_votes[n]
                       ELSE PutVal(election_votes[n], Get(m, "ClientID"), Get(m, "VoteID"))
          IN
          /\ election_votes' = [election_votes EXCEPT ![n] = votes]
          /\ IF Len(votes) >= N_participants
             THEN ElectAndRun(n, votes)
             ELSE UNCHANGED <<state, is_leader, leader_id,
                              current_transaction_id, issued, pc>>
  /\ UNCHANGED <<client_id, known_participants, transactions_table, active_miner,
                 detached, connected, mpc, msgs, last_challenge, reconnects, delivered>>

\* ------------------------------------- Estado III & IV: controller / miner
\* _update_transaction_table: self.transactions_table[tx_id] = {...}
update_transaction_table(table, tx_id, challenge, solution, winner) ==
  [k \in DOMAIN table \cup {tx_id} |->
     IF k = tx_id
     THEN [Challenge |-> challenge, Solution |-> solution, Winner |-> winner]
     ELSE table[k]]

\* Mutant of NextTransactionId: the counter skips a value.
NextTransactionIdSkip(cur) == cur + 2

\* self.current_transaction_id += 1
NextTransactionId(cur) == cur + 1

\* _generate_next_challenge, after the controller's time.sleep(2) in
\* run_challenge_state or in _handle_solution_message_controller.
GenerateNextChallenge(n) ==
  /\ pc[n] = "gen_challenge"
  /\ NextTransactionId(current_transaction_id[n]) <= MaxTx
  /\ LET new_tx_id == NextTransactionId(current_transaction_id[n]) IN
     \E challenge_value \in Difficulties :
       /\ current_transaction_id' = [current_transaction_id EXCEPT ![n] = new_tx_id]
       /\ transactions_table' = [transactions_table EXCEPT ![n] =
            update_transaction_table(transactions_table[n], new_tx_id,
                                     challenge_value, <<>>, WINNER_PENDING)]
       /\ Publish(ChallengeMsg(new_tx_id, challenge_value))
       /\ issued' = [issued EXCEPT ![n] = Append(issued[n], new_tx_id)]
  /\ pc' = [pc EXCEPT ![n] = "idle"]
  /\ UNCHANGED <<state, client_id, is_leader, leader_id, known_participants,
                 election_votes, active_miner, detached, connected, mpc,
                 last_challenge, reconnects, delivered>>

\* Mutant of Absorbed: only an unknown TransactionID is returned on.
AbsorbedUnknownOnly(table, m) == Get(m, "TransactionID") \notin DOMAIN table

\* The two early returns of _handle_solution_message_controller: the
\* TransactionID is not in the ledger, or its entry is already resolved.
Absorbed(table, m) ==
  \/ Get(m, "TransactionID") \notin DOMAIN table
  \/ table[Get(m, "TransactionID")].Winner # WINNER_PENDING

\* check_solution(challenge, None): None has no encode(), the AttributeError
\* is caught by "except Exception" in on_message and the handler is abandoned.
SolutionRaises(m) == "Solution" \notin DOMAIN m

\* on_message for TOPIC_SOLUTION (only when self.is_leader) and
\* _handle_solution_message_controller up to its time.sleep(2).
HandleSolution(n, m) ==
  /\ connected[n] /\ pc[n] = "idle"
  /\ m \in msgs /\ m.topic = TOPIC_SOLUTION
  /\ IF ~is_leader[n] \/ Absorbed(transactions_table[n], m) \/ SolutionRaises(m)
     THEN UNCHANGED <<transactions_table, pc, msgs>>
     ELSE LET client_id_ == Get(m, "ClientID")
              transaction_id == Get(m, "TransactionID")
              solution == m.Solution
              current_tx == transactions_table[n][transaction_id]
          IN
          IF check_solution(current_tx.Challenge, solution)
          THEN /\ transactions_table' = [transactions_table EXCEPT ![n] =
                    update_transaction_table(transactions_table[n], transaction_id,
                                             current_tx.Challenge, solution, client_id_)]
               /\ Publish(ResultMsg(client_id_, transaction_id, solution, RESULT_VALID))
               /\ pc' = [pc EXCEPT ![n] = "gen_challenge"]
          ELSE /\ Publish(ResultMsg(client_id_, transaction_id, solution, RESULT_INVALID))
               /\ UNCHANGED <<transactions_table, pc>>
  /\ UNCHANGED <<state, client_id, is_leader, leader_id, current_transaction_id,
                 known_participants, election_votes, active_miner, detached,
                 connected, mpc, last_challenge, issued, reconnects, delivered>>

\* MineradorThread.__init__ followed by start().
NewMiner(transaction_id, challenge) ==
  [transaction_id |-> transaction_id, challenge |-> challenge, running |-> TRUE,
   nonce |-> 0, wpc |-> "check", alive |-> TRUE]

\* MineradorThread.stop
stop(w) == [w EXCEPT !.running = FALSE]

\* "if self.active_miner and self.active_miner.is_alive(): self.active_miner.stop()"
\* The thread object the handle pointed to stays in the process while it is
\* alive (or while its flag is still set).
StopPrevious(am) ==
  IF am = <<>> THEN {}
  ELSE LET old == IF am[1].alive THEN stop(am[1]) ELSE am[1] IN
       IF old.alive \/ old.running THEN {old} ELSE {}

\* _handle_challenge_message_miner.  The bus hands a miner each challenge
\* message once (repeated deliveries of the other topics are followed).
HandleChallenge(n, m) ==
  /\ connected[n] /\ pc[n] = "idle"
  /\ m \in msgs /\ m.topic = TOPIC_CHALLENGE
  /\ m \notin delivered[n]
  /\ IF is_leader[n]
     THEN /\ UNCHANGED <<transactions_table, active_miner, detached, delivered>>
          /\ last_challenge' = IF active_miner[n] = <<>> THEN last_challenge
                                ELSE [last_challenge EXCEPT ![n] = Get(m, "TransactionID")]
     ELSE /\ delivered' = [delivered EXCEPT ![n] = delivered[n] \cup {m}]
          /\ last_challenge' = [last_challenge EXCEPT ![n] = Get(m, "TransactionID")]
          /\ detached' = [detached EXCEPT ![n] = detached[n] \cup StopPrevious(active_miner[n])]
          /\ transactions_table' = [transactions_table EXCEPT ![n] =
               update_transaction_table(transactions_table[n], Get(m, "TransactionID"),
                                        Get(m, "Challenge"), <<>>, WINNER_PENDING)]
          /\ active_miner' = [active_miner EXCEPT ![n] =
               <<NewMiner(Get(m, "TransactionID"), Get(m, "Challenge"))>>]
  /\ UNCHANGED <<state, client_id, is_leader, leader_id, current_transaction_id,
                 known_participants, election_votes, connected, pc, mpc, msgs,
                 issued, reconnects>>

\* _handle_result_message_miner: its effect on self.transactions_table ...
ResultTable(table, m) ==
  IF Get(m, "TransactionID") \in DOMAIN table /\ Get(m, "Result") = RESULT_VALID
  THEN [table EXCEPT ![Get(m, "TransactionID")].Winner = Get(m, "ClientID")]
  ELSE table

\* Mutant of ResultMiner: the worker is stopped whatever TransactionID the
\* result is for.
ResultMinerAnyTx(table, am, m) ==
  IF /\ Get(m, "TransactionID") \in DOMAIN table /\ Get(m, "Result") = RESULT_VALID
     /\ am # <<>>
  THEN <<stop(am[1])>>
  ELSE am

\* Mutant of ResultMiner: stop() toggles the flag instead of clearing it.
ResultMinerToggle(table, am, m) ==
  IF /\ Get(m, "TransactionID") \in DOMAIN table /\ Get(m, "Result") = RESULT_VALID
     /\ am # <<>> /\ am[1].transaction_id = Get(m, "TransactionID")
  THEN <<[am[1] EXCEPT !.running = ~am[1].running]>>
  ELSE am

\* ... and on self.active_miner.
ResultMiner(table, am, m) ==
  IF /\ Get(m, "TransactionID") \in DOMAIN table /\ Get(m, "Result") = RESULT_VALID
     /\ am # <<>> /\ am[1].transaction_id = Get(m, "TransactionID")
  THEN <<stop(am[1])>>
  ELSE am

HandleResult(n, m) ==
  /\ connected[n] /\ pc[n] = "idle"
  /\ m \in msgs /\ m.topic = TOPIC_RESULT
  /\ transactions_table' = [transactions_table EXCEPT ![n] =
       ResultTable(transactions_table[n], m)]
  /\ active_miner' = [active_miner EXCEPT ![n] =
       ResultMiner(transactions_table[n], active_miner[n], m)]
  /\ UNCHANGED <<state, client_id, is_leader, leader_id, current_transaction_id,
                 known_participants, election_votes, detached, connected, pc, mpc,
                 msgs, last_challenge, issued, reconnects, delivered>>

\* ------------------------------------------------------- MineradorThread.run
\* "while self.running:" -- the flag test at the top of the loop.
MinerCheck(w) ==
  IF w.running THEN [w EXCEPT !.wpc = "test"]
  ELSE [w EXCEPT !.wpc = "done", !.alive = FALSE]

test_string(w) == <<w.transaction_id, w.nonce>>

\* check_solution(None, ...): '0' * None is a TypeError, which ends the
\* thread's run() with its flag still set.
MinerRaises(w) == w.challenge = None

MinerFound(w) == ~MinerRaises(w) /\ check_solution(w.challenge, test_string(w))

\* The loop body: on a hit publish, clear the flag and leave; else nonce += 1.
MinerTest(w) ==
  IF MinerRaises(w)
  THEN [w EXCEPT !.wpc = "done", !.alive = FALSE]
  ELSE IF MinerFound(w)
  THEN [w EXCEPT !.running = FALSE, !.wpc = "done", !.alive = FALSE]
  ELSE [w EXCEPT !.nonce = w.nonce + 1, !.wpc = "check"]

MinerPublish(n, w) ==
  IF MinerFound(w)
  THEN Publish(SolutionMsg(client_id[n], w.transaction_id, test_string(w)))
  ELSE UNCHANGED msgs

ActiveMinerCheck(n) ==
  /\ active_miner[n] # <<>>
  /\ active_miner[n][1].alive /\ active_miner[n][1].wpc = "check"
  /\ active_miner' = [active_miner EXCEPT ![n] = <<MinerCheck(active_miner[n][1])>>]
  /\ UNCHANGED <<state, client_id, is_leader, leader_id, current_transaction_id,
                 known_participants, election_votes, transactions_table, detached,
                 connected, pc, mpc, msgs, last_challenge, issued, reconnects, delivered>>

ActiveMinerTest(n) ==
  /\ active_miner[n] # <<>>
  /\ active_miner[n][1].alive /\ active_miner[n][1].wpc = "test"
  /\ \/ MinerRaises(active_miner[n][1]) \/ MinerFound(active_miner[n][1])
     \/ active_miner[n][1].nonce < MaxNonce
  /\ active_miner' = [active_miner EXCEPT ![n] = <<MinerTest(active_miner[n][1])>>]
  /\ MinerPublish(n, active_miner[n][1])
  /\ UNCHANGED <<state, client_id, is_leader, leader_id, current_transaction_id,
                 known_participants, election_votes, transactions_table, detached,
                 connected, pc, mpc, last_challenge, issued, reconnects, delivered>>

\* A thread that is no longer referenced and has finished with its flag
\* cleared has no further effect and is dropped from the state.
Keep(w) == IF w.alive \/ w.running THEN {w} ELSE {}

DetachedMinerCheck(n, w) ==
  /\ w \in detached[n]
  /\ w.alive /\ w.wpc = "check"
  /\ detached' = [detached EXCEPT ![n] = (detached[n] \ {w}) \cup Keep(MinerCheck(w))]
  /\ UNCHANGED <<state, client_id, is_leader, leader_id, current_transaction_id,
                 known_participants, election_votes, transactions_table,
                 active_miner, connected, pc, mpc, msgs, last_challenge, issued,
                 reconnects, delivered>>

DetachedMinerTest(n, w) ==
  /\ w \in detached[n]
  /\ w.alive /\ w.wpc = "test"
  /\ MinerRaises(w) \/ MinerFound(w) \/ w.nonce < MaxNonce
  /\ detached' = [detached EXCEPT ![n] = (detached[n] \ {w}) \cup Keep(MinerTest(w))]
  /\ MinerPublish(n, w)
  /\ UNCHANGED <<state, client_id, is_leader, leader_id, current_transaction_id,
                 known_participants, election_votes, transactions_table,
                 active_miner, connected, pc, mpc, last_challenge, issued,
                 reconnects, delivered>>

\* --------------------------------------------------------- specifications
\* Every step of every thread of every process; on_message hands any message
\* of the bus to the handler of its topic.
Next ==
  \/ \E n \in Nodes : OnConnect(n) /\ UNCHANGED inbox
  \/ \E n \in Nodes : RepublishInit(n) /\ UNCHANGED inbox
  \/ \E n \in Nodes : \E m \in msgs : HandleInit(n, m) /\ UNCHANGED inbox
  \/ \E n \in Nodes : ClearVotes(n) /\ UNCHANGED inbox
  \/ \E n \in Nodes : ElectionCheck(n) /\ UNCHANGED inbox
  \/ \E n \in Nodes : ElectionGenerate(n) /\ UNCHANGED inbox
  \/ \E n \in Nodes : ElectionPublish(n) /\ UNCHANGED inbox
  \/ \E n \in Nodes : \E m \in msgs : HandleElection(n, m) /\ UNCHANGED inbox
  \/ \E n \in Nodes : GenerateNextChallenge(n) /\ UNCHANGED inbox
  \/ \E n \in Nodes : \E m \in msgs : HandleSolution(n, m) /\ UNCHANGED inbox
  \/ \E n \in Nodes : \E m \in msgs : HandleChallenge(n, m) /\ UNCHANGED inbox
  \/ \E n \in Nodes : \E m \in msgs : HandleResult(n, m) /\ UNCHANGED inbox
  \/ \E n \in Nodes : ActiveMinerCheck(n) /\ UNCHANGED inbox
  \/ \E n \in Nodes : ActiveMinerTest(n) /\ UNCHANGED inbox

\* In a cohort of two, a miner is handed the challenge for the next
\* TransactionID only after its own worker has published the solution of the
\* previous one and ended, so no superseded worker is ever still alive there
\* (NoDetachedWorker); the steps of superseded workers are part of NextRunning.
NoDetachedWorker == \A n \in Nodes : detached[n] = {}

\* A cohort of two processes with stable connectivity (on_connect fires once).
Spec == Init /\ [][Next]_vars

\* Fair scheduling of Spec: the transport connects every node, the main loop
\* keeps ticking, the network thread keeps taking the next statement of a
\* handler and handing over the messages of every topic, and every started
\* worker keeps running its loop.
Fair ==
  \A n \in Cohort :
    /\ WF_vars(OnConnect(n) /\ UNCHANGED inbox)
    /\ WF_vars((RepublishInit(n) \/ ElectionCheck(n) \/ ElectionGenerate(n)
                  \/ ElectionPublish(n)) /\ UNCHANGED inbox)
    /\ WF_vars(ClearVotes(n) /\ UNCHANGED inbox)
    /\ WF_vars(GenerateNextChallenge(n) /\ UNCHANGED inbox)
    /\ WF_vars(\E m \in msgs : HandleInit(n, m) /\ UNCHANGED inbox)
    /\ WF_vars(\E m \in msgs : HandleElection(n, m) /\ UNCHANGED inbox)
    /\ WF_vars(\E m \in msgs : HandleSolution(n, m) /\ UNCHANGED inbox)
    /\ WF_vars(\E m \in msgs : HandleChallenge(n, m) /\ UNCHANGED inbox)
    /\ WF_vars(\E m \in msgs : HandleResult(n, m) /\ UNCHANGED inbox)
    /\ WF_vars(ActiveMinerCheck(n) /\ UNCHANGED inbox)
    /\ WF_vars(ActiveMinerTest(n) /\ UNCHANGED inbox)

SpecFair == Spec /\ Fair

\* The same cohort when the transport drops and re-establishes a connection:
\* the runs of Spec, followed up to and including the first repeated firing of
\* on_connect.
NextReconnect ==
  \/ reconnects = 0 /\ Next
  \/ \E n \in Nodes : Reconnect(n) /\ UNCHANGED inbox
SpecReconnect == Init /\ [][NextReconnect]_vars

\* ---------------------------------------------------------------------
\* The challenge loop of a cohort of three: one controller and two miners.
\* InitRunning is the state in which an election without interference ends:
\* ClientIDs 0, 1, 2, every node holds the same votes map (all VoteIDs 0),
\* _elect_leader has chosen ClientID 2 on every node, and the controller is in
\* the time.sleep(2) of run_challenge_state.
CohortRunning == {"p1", "p2", "p3"}
IdOf(n) == CASE n = "p1" -> 0 [] n = "p2" -> 1 [] OTHER -> 2
VotesRunning == << <<0, 0>>, <<1, 0>>, <<2, 0>> >>

InitRunningFor(cohort, votes) ==
  /\ state = [n \in cohort |-> STATE_RUNNING]
  /\ client_id = [n \in cohort |-> IdOf(n)]
  /\ leader_id = [n \in cohort |-> elect_leader(votes)]
  /\ is_leader = [n \in cohort |-> client_id[n] = leader_id[n]]
  /\ current_transaction_id = [n \in cohort |-> IF is_leader[n] THEN -1 ELSE 0]
  /\ known_participants = [n \in cohort |-> {IdOf(o) : o \in cohort}]
  /\ election_votes = [n \in cohort |-> votes]
  /\ transactions_table = [n \in cohort |-> <<>>]
  /\ active_miner = [n \in cohort |-> <<>>]
  /\ detached = [n \in cohort |-> {}]
  /\ connected = [n \in cohort |-> TRUE]
  /\ pc = [n \in cohort |-> IF is_leader[n] THEN "gen_challenge" ELSE "idle"]
  /\ mpc = [n \in cohort |-> "idle"]
  /\ msgs = {InitMsg(IdOf(n)) : n \in cohort}
              \cup {ElectionMsg(IdOf(n), GetVal(votes, IdOf(n))) : n \in cohort}
  /\ last_challenge = [n \in cohort |-> None]
  /\ issued = [n \in cohort |-> <<>>]
  /\ reconnects = 0
  /\ delivered = [n \in cohort |-> {}]
  /\ inbox = [n \in cohort |-> {}]

InitRunning == InitRunningFor(CohortRunning, VotesRunning)

\* The steps a process takes in Running.
NextRunning ==
  \/ \E n \in Nodes : GenerateNextChallenge(n) /\ UNCHANGED inbox
  \/ \E n \in Nodes : \E m \in msgs : HandleSolution(n, m) /\ UNCHANGED inbox
  \/ \E n \in Nodes : \E m \in msgs : HandleChallenge(n, m) /\ UNCHANGED inbox
  \/ \E n \in Nodes : \E m \in msgs : HandleResult(n, m) /\ UNCHANGED inbox
  \/ \E n \in Nodes : ActiveMinerCheck(n) /\ UNCHANGED inbox
  \/ \E n \in Nodes : ActiveMinerTest(n) /\ UNCHANGED inbox
  \/ \E n \in Nodes : \E w \in detached[n] : DetachedMinerCheck(n, w) /\ UNCHANGED inbox
  \/ \E n \in Nodes : \E w \in detached[n] : DetachedMinerTest(n, w) /\ UNCHANGED inbox

SpecRunning == InitRunning /\ [][NextRunning]_vars

\* ---------------------------------------------------------------------
\* _elect_leader on its own: one process in Election whose votes map is any
\* insertion order of any non-empty map from ElectClients to ElectVotes.
ElectClients == {10, 20, 30}
ElectVotes == {0, 50, 100, 65535}
MaxElectLen == 3

VoteMaps ==
  {d \in UNION {[1..k -> ElectClients \X ElectVotes] : k \in 1..MaxElectLen} :
     \A i, j \in 1..Len(d) : i # j => d[i][1] # d[j][1]}

InitElect ==
  /\ state = [n \in {"p1"} |-> STATE_ELECTION]
  /\ client_id \in [{"p1"} -> ElectClients]
  /\ is_leader = [n \in {"p1"} |-> FALSE]
  /\ leader_id = [n \in {"p1"} |-> -1]
  /\ current_transaction_id = [n \in {"p1"} |-> 0]
  /\ known_participants = [n \in {"p1"} |-> {client_id[n]}]
  /\ election_votes \in [{"p1"} -> VoteMaps]
  /\ transactions_table = [n \in {"p1"} |-> <<>>]
  /\ active_miner = [n \in {"p1"} |-> <<>>]
  /\ detached = [n \in {"p1"} |-> {}]
  /\ connected = [n \in {"p1"} |-> TRUE]
  /\ pc = [n \in {"p1"} |-> "idle"]
  /\ mpc = [n \in {"p1"} |-> "idle"]
  /\ msgs = {}
  /\ last_challenge = [n \in {"p1"} |-> None]
  /\ issued = [n \in {"p1"} |-> <<>>]
  /\ reconnects = 0
  /\ delivered = [n \in {"p1"} |-> {}]
  /\ inbox = [n \in {"p1"} |-> {}]

ElectLeader(n) ==
  /\ state[n] = STATE_ELECTION
  /\ pc[n] = "idle"
  /\ ElectAndRun(n, election_votes[n])
  /\ UNCHANGED <<client_id, known_participants, election_votes, transactions_table,
                 active_miner, detached, connected, mpc, msgs, last_challenge,
                 reconnects, delivered>>

NextElect == \E n \in Nodes : ElectLeader(n) /\ UNCHANGED inbox
SpecElect == InitElect /\ [][NextElect]_vars

\* ---------------------------------------------------------------------
\* Discovery and election over a bus that hands every copy once: the broker
\* routes a publication to the nodes subscribed at that moment (subscribe is
\* called in on_connect), on_message consumes the copy, and copies of different
\* publications reach a node in any order.
\* Copies for a node in Running are not kept: both handlers return on them at
\* their phase test.
Route(box, pubs) ==
  [o \in DOMAIN box |->
     IF connected[o] /\ state[o] # STATE_RUNNING THEN box[o] \cup pubs ELSE box[o]]
Take(box, n, m) == [box EXCEPT ![n] = box[n] \ {m}]

\* The cohort of the claim: every node connected, distinct ClientIDs (the
\* state after on_connect has fired once on every node, nothing published yet).
InitConnected ==
  /\ state = [n \in Cohort |-> STATE_INIT]
  /\ client_id = [n \in Cohort |-> IdOf(n)]
  /\ is_leader = [n \in Cohort |-> FALSE]
  /\ leader_id = [n \in Cohort |-> -1]
  /\ current_transaction_id = [n \in Cohort |-> 0]
  /\ known_participants = [n \in Cohort |-> {IdOf(n)}]
  /\ election_votes = [n \in Cohort |-> <<>>]
  /\ transactions_table = [n \in Cohort |-> <<>>]
  /\ active_miner = [n \in Cohort |-> <<>>]
  /\ detached = [n \in Cohort |-> {}]
  /\ connected = [n \in Cohort |-> TRUE]
  /\ pc = [n \in Cohort |-> "idle"]
  /\ mpc = [n \in Cohort |-> "idle"]
  /\ msgs = {}
  /\ last_challenge = [n \in Cohort |-> None]
  /\ issued = [n \in Cohort |-> <<>>]
  /\ reconnects = 0
  /\ delivered = [n \in Cohort |-> {}]
  /\ inbox = [n \in Cohort |-> {}]

AnnounceInit(n) ==
  /\ RepublishInit(n)
  /\ inbox' = Route(inbox, Carried(InitMsg(client_id[n])))

\* The three broadcasts that follow the peer set reaching N are routed like
\* any other publication.
DeliverInit(n, m) ==
  /\ m \in inbox[n]
  /\ HandleInit(n, m)
  /\ inbox' = Route(Take(inbox, n, m),
                    IF state'[n] # state[n] THEN Carried(InitMsg(client_id[n])) ELSE {})

\* The same delivery when the network loses those three broadcasts.
DeliverInitLossy(n, m) ==
  /\ m \in inbox[n]
  /\ HandleInit(n, m)
  /\ inbox' = Take(inbox, n, m)

AnnounceVote(n) ==
  /\ ElectionPublish(n)
  /\ inbox' = Route(inbox, Carried(ElectionMsg(client_id[n],
                                               GetVal(election_votes[n], client_id[n]))))

DeliverElection(n, m) ==
  /\ m \in inbox[n]
  /\ HandleElection(n, m)
  /\ inbox' = IF state'[n] = STATE_RUNNING THEN [inbox EXCEPT ![n] = {}]
              ELSE Take(inbox, n, m)

\* The main thread's loop in Participante.start.
MainThread(n) ==
  \/ AnnounceInit(n)
  \/ ElectionCheck(n) /\ UNCHANGED inbox
  \/ ElectionGenerate(n) /\ UNCHANGED inbox
  \/ AnnounceVote(n)

\* The init and voting messages the cohort can publish.
ElectionBus ==
  {InitMsg(c) : c \in 0..(Cardinality(Cohort) - 1 + SpareIds)}
    \cup {ElectionMsg(c, v) : c \in 0..(Cardinality(Cohort) - 1 + SpareIds), v \in 0..MaxVote}

NextElection ==
  \/ \E n \in Nodes : AnnounceInit(n)
  \/ \E n \in Nodes : \E m \in ElectionBus : DeliverInit(n, m)
  \/ \E n \in Nodes : ClearVotes(n) /\ UNCHANGED inbox
  \/ \E n \in Nodes : ElectionCheck(n) /\ UNCHANGED inbox
  \/ \E n \in Nodes : ElectionGenerate(n) /\ UNCHANGED inbox
  \/ \E n \in Nodes : AnnounceVote(n)
  \/ \E n \in Nodes : \E m \in ElectionBus : DeliverElection(n, m)

\* The main thread keeps looping, and the network thread keeps taking the next statement of a handler and every copy
\* that is waiting for the node.
FairElection ==
  \A n \in Cohort :
    /\ WF_vars(MainThread(n))
    /\ WF_vars(ClearVotes(n) /\ UNCHANGED inbox)
    /\ \A m \in ElectionBus : WF_vars(DeliverInit(n, m))
    /\ \A m \in ElectionBus : WF_vars(DeliverElection(n, m))

SpecElection == InitConnected /\ [][NextElection]_vars /\ FairElection

\* The same with the three extra init broadcasts lost.
NextInitLossy ==
  \/ \E n \in Nodes : AnnounceInit(n)
  \/ \E n \in Nodes : \E m \in ElectionBus : DeliverInitLossy(n, m)
  \/ \E n \in Nodes : ClearVotes(n) /\ UNCHANGED inbox
  \/ \E n \in Nodes : ElectionCheck(n) /\ UNCHANGED inbox
  \/ \E n \in Nodes : ElectionGenerate(n) /\ UNCHANGED inbox
  \/ \E n \in Nodes : AnnounceVote(n)
  \/ \E n \in Nodes : \E m \in ElectionBus : DeliverElection(n, m)

FairInitLossy ==
  \A n \in Cohort :
    /\ WF_vars(MainThread(n))
    /\ WF_vars(ClearVotes(n) /\ UNCHANGED inbox)
    /\ \A m \in ElectionBus : WF_vars(DeliverInitLossy(n, m))
    /\ \A m \in ElectionBus : WF_vars(DeliverElection(n, m))

SpecInitLossy == InitConnected /\ [][NextInitLossy]_vars /\ FairInitLossy

\* ---------------------------------------------------------------------
\* The broker accepts a publication on the five topics from any client, and
\* on_message hands whatever arrives to the handler of its topic.
\* Inject(m): a publisher outside the cohort puts m on the bus.
Inject(m) ==
  /\ msgs' = msgs \cup {m}
  /\ UNCHANGED <<state, client_id, is_leader, leader_id, current_transaction_id,
                 known_participants, election_votes, transactions_table,
                 active_miner, detached, connected, pc, mpc, last_challenge,
                 issued, reconnects, delivered>>

\* Payloads that lack one required field of their topic's schema: one
\* well-formed message per topic with each of its fields removed in turn.
MaxMalformed == 1     \* malformed messages put on the bus in one run
Drop(m, field) == [f \in DOMAIN m \ {field} |-> m[f]]
WellFormedSamples ==
  {InitMsg(0), ElectionMsg(0, 0), ChallengeMsg(0, 1), SolutionMsg(0, 0, <<0, 1>>),
   ResultMsg(0, 0, <<0, 1>>, RESULT_VALID)}
MalformedMessages ==
  UNION {{Drop(m, f) : f \in DOMAIN m \ {"topic"}} : m \in WellFormedSamples}

\* The challenge loop of a controller (ClientID 1) and one miner (ClientID 0)
\* after an election without interference, with malformed payloads on the bus.
CohortPair == {"p1", "p2"}
VotesPair == << <<0, 0>>, <<1, 0>> >>
InitPair == InitRunningFor(CohortPair, VotesPair)

NextMalformed ==
  \/ \E n \in Nodes : GenerateNextChallenge(n) /\ UNCHANGED inbox
  \/ \E n \in Nodes : \E m \in msgs : HandleInit(n, m) /\ UNCHANGED inbox
  \/ \E n \in Nodes : \E m \in msgs : HandleElection(n, m) /\ UNCHANGED inbox
  \/ \E n \in Nodes : \E m \in msgs : HandleSolution(n, m) /\ UNCHANGED inbox
  \/ \E n \in Nodes : \E m \in msgs : HandleChallenge(n, m) /\ UNCHANGED inbox
  \/ \E n \in Nodes : \E m \in msgs : HandleResult(n, m) /\ UNCHANGED inbox
  \/ \E n \in Nodes : ActiveMinerCheck(n) /\ UNCHANGED inbox
  \/ \E n \in Nodes : ActiveMinerTest(n) /\ UNCHANGED inbox
  \/ \E n \in Nodes : \E w \in detached[n] : DetachedMinerCheck(n, w) /\ UNCHANGED inbox
  \/ \E n \in Nodes : \E w \in detached[n] : DetachedMinerTest(n, w) /\ UNCHANGED inbox
  \/ \E m \in MalformedMessages :
       /\ Cardinality(msgs \cap MalformedMessages) < MaxMalformed
       /\ Inject(m) /\ UNCHANGED inbox

SpecMalformed == InitPair /\ [][NextMalformed]_vars

\* ---------------------------------------------------------------------
\* The challenge loop of the cohort of three when a miner (ClientID 0) also
\* submits solutions that its worker would not: the empty string or a string
\* whose hash has no leading zero, for a TransactionID of the ledger or for
\* one the controller has not issued.
MaxForeign == 1       \* such submissions in one run
ForeignSolutions ==
  {SolutionMsg(0, tx, sol) : tx \in 0..(MaxTx + 1), sol \in {<<>>, <<0, 0>>}}

NextOpen ==
  \/ \E n \in Nodes : GenerateNextChallenge(n) /\ UNCHANGED inbox
  \/ \E n \in Nodes : \E m \in msgs : HandleSolution(n, m) /\ UNCHANGED inbox
  \/ \E n \in Nodes : \E m \in msgs : HandleChallenge(n, m) /\ UNCHANGED inbox
  \/ \E n \in Nodes : \E m \in msgs : HandleResult(n, m) /\ UNCHANGED inbox
  \/ \E n \in Nodes : ActiveMinerCheck(n) /\ UNCHANGED inbox
  \/ \E n \in Nodes : ActiveMinerTest(n) /\ UNCHANGED inbox
  \/ \E n \in Nodes : \E w \in detached[n] : DetachedMinerCheck(n, w) /\ UNCHANGED inbox
  \/ \E n \in Nodes : \E w \in detached[n] : DetachedMinerTest(n, w) /\ UNCHANGED inbox
  \/ \E m \in ForeignSolutions :
       /\ Cardinality(msgs \cap ForeignSolutions) < MaxForeign
       /\ Inject(m) /\ UNCHANGED inbox

SpecOpen == InitRunning /\ [][NextOpen]_vars

\* ---------------------------------------------------------------------
\* At-least-once delivery of challenge messages: the bus forgets that it has
\* handed m to n, so the handler of n is handed a duplicate of m.
Redeliver(n, m) ==
  /\ m \in delivered[n]
  /\ delivered' = [delivered EXCEPT ![n] = delivered[n] \ {m}]
  /\ UNCHANGED <<state, client_id, is_leader, leader_id, current_transaction_id,
                 known_participants, election_votes, transactions_table,
                 active_miner, detached, connected, pc, mpc, msgs, last_challenge,
                 issued, reconnects>>

\* The challenge loop of a controller and one miner with duplicates.
NextDuplicates ==
  \/ \E n \in Nodes : GenerateNextChallenge(n) /\ UNCHANGED inbox
  \/ \E n \in Nodes : \E m \in msgs : HandleSolution(n, m) /\ UNCHANGED inbox
  \/ \E n \in Nodes : \E m \in msgs : HandleChallenge(n, m) /\ UNCHANGED inbox
  \/ \E n \in Nodes : \E m \in msgs : HandleResult(n, m) /\ UNCHANGED inbox
  \/ \E n \in Nodes : ActiveMinerCheck(n) /\ UNCHANGED inbox
  \/ \E n \in Nodes : ActiveMinerTest(n) /\ UNCHANGED inbox
  \/ \E n \in Nodes : \E w \in detached[n] : DetachedMinerCheck(n, w) /\ UNCHANGED inbox
  \/ \E n \in Nodes : \E w \in detached[n] : DetachedMinerTest(n, w) /\ UNCHANGED inbox
  \/ \E n \in Nodes : \E m \in msgs : Redeliver(n, m) /\ UNCHANGED inbox

SpecDuplicates == InitPair /\ [][NextDuplicates]_vars

\* =====================================================================
\* Properties
\* =====================================================================
Running == {n \in Nodes : state[n] = STATE_RUNNING}
Entries(n) == DOMAIN transactions_table[n]
Resolved(n, tx) == tx \in Entries(n) /\ transactions_table[n][tx].Winner # WINNER_PENDING
Pending(n) == {tx \in Entries(n) : transactions_table[n][tx].Winner = WINNER_PENDING}

\* C1 -- Leader uniqueness: any two nodes that have reached Running hold the
\* same leader_id; at most one of them has is_leader = TRUE, that node's
\* ClientID is the common leader_id, and once the whole cohort is in Running
\* exactly one node has is_leader = TRUE.
LeaderUniqueness ==
  /\ \A a, b \in Running : leader_id[a] = leader_id[b]
  /\ \A a \in Running : is_leader[a] => client_id[a] = leader_id[a]
  /\ Cardinality({a \in Running : is_leader[a]}) <= 1
  /\ Running = Nodes => Cardinality({a \in Running : is_leader[a]}) = 1

\* C2 -- Leader determinism: for every non-empty votes map, the leader_id set
\* by _elect_leader is the ClientID whose pair (VoteID, ClientID) is the
\* lexicographic maximum of the map: highest VoteID, ties broken by the highest
\* ClientID.
LexMax(votes) ==
  CHOOSE p \in {votes[i] : i \in 1..Len(votes)} :
    \A i \in 1..Len(votes) :
      votes[i][2] < p[2] \/ (votes[i][2] = p[2] /\ votes[i][1] <= p[1])

LeaderDeterminism ==
  \A n \in Running :
    /\ leader_id[n] = LexMax(election_votes[n])[1]
    /\ is_leader[n] = (client_id[n] = leader_id[n])

\* C2 witness: the votes map {10:100, 20:100, 30:50} has elected 20.
LeaderDeterminismWitness ==
  \E n \in Running :
    /\ election_votes[n] = << <<10, 100>>, <<20, 100>>, <<30, 50>> >>
    /\ leader_id[n] = 20

\* C3 -- Phase monotonicity: the only changes of a node's phase are
\* Init -> Election and Election -> Running; no step moves a node back.
PhaseMonotonicity ==
  [][\A n \in Nodes :
       state'[n] # state[n] =>
         \/ state[n] = STATE_INIT /\ state'[n] = STATE_ELECTION
         \/ state[n] = STATE_ELECTION /\ state'[n] = STATE_RUNNING]_vars

\* C4 -- Controller ledger append-only: once an entry of a controller's
\* transactions_table has Winner # PENDING, its (Challenge, Solution, Winner)
\* triple is the same in every later state.
ControllerLedgerAppendOnly ==
  [][\A n \in Nodes : \A tx \in Entries(n) :
       is_leader[n] /\ Resolved(n, tx) =>
         /\ tx \in DOMAIN transactions_table'[n]
         /\ transactions_table'[n][tx] = transactions_table[n][tx]]_vars

\* C5 -- Solution validity: every entry with Winner # PENDING in any node's
\* ledger has a Solution that check_solution accepts for the entry's Challenge.
SolutionValidity ==
  \A n \in Nodes : \A tx \in Entries(n) :
    Resolved(n, tx) =>
      check_solution(transactions_table[n][tx].Challenge,
                     transactions_table[n][tx].Solution)

\* C6 -- Single outstanding challenge: a controller's ledger holds at most one
\* TransactionID whose Winner is PENDING.
SingleOutstandingChallenge ==
  \A n \in Nodes : is_leader[n] => Cardinality(Pending(n)) <= 1

\* C7 -- Worker tagging: a node has at most one mining worker whose stop flag
\* is unset, and if it holds a worker handle, that worker's transaction_id is
\* the TransactionID of the most recent challenge message the node has handled.
UnstoppedWorkers(n) ==
  {w \in detached[n] : w.running} \cup
  (IF active_miner[n] # <<>> /\ active_miner[n][1].running THEN {active_miner[n][1]} ELSE {})

WorkerTagging ==
  \A n \in Nodes :
    /\ Cardinality(UnstoppedWorkers(n)) <= 1
    /\ active_miner[n] # <<>> => active_miner[n][1].transaction_id = last_challenge[n]

\* C8 -- Result idempotence: in every reachable node state, for every result
\* message r, handling r twice in a row leaves the same ledger and the same
\* active worker (stop flag included) as handling r once.
ResultMessages ==
  {ResultMsg(c, tx, sol, res) :
     c \in ClientIds, tx \in 0..MaxTx, sol \in {<<>>, <<0, 1>>},
     res \in {RESULT_INVALID, RESULT_VALID}}

ResultIdempotence ==
  \A n \in Nodes : \A r \in ResultMessages :
    LET table1 == ResultTable(transactions_table[n], r)
        miner1 == ResultMiner(transactions_table[n], active_miner[n], r)
    IN /\ ResultTable(table1, r) = table1
       /\ ResultMiner(table1, miner1, r) = miner1

\* C8 witness: a result message has stopped a miner's live worker and set the
\* winner of its transaction.
ResultIdempotenceWitness ==
  \E n \in Nodes :
    /\ active_miner[n] # <<>>
    /\ active_miner[n][1].alive /\ ~active_miner[n][1].running
    /\ Resolved(n, active_miner[n][1].transaction_id)

OutOfPhaseDropped ==
  [][\A n \in Nodes : \A m \in msgs :
       /\ (state[n] \in {STATE_INIT, STATE_ELECTION}
             /\ (HandleChallenge(n, m) \/ HandleResult(n, m)))
          => /\ transactions_table'[n] = transactions_table[n]
             /\ active_miner'[n] = active_miner[n]
             /\ detached'[n] = detached[n]
       /\ ((state[n] # STATE_INIT /\ HandleInit(n, m))
             \/ (state[n] # STATE_ELECTION /\ HandleElection(n, m)))
          => /\ known_participants'[n] = known_participants[n]
             /\ election_votes'[n] = election_votes[n]]_vars

\* C11 -- Malformed payloads cause no state change: when a node handles a
\* message that lacks a required field of its topic's schema, its peer set,
\* votes map, ledger, transaction counter and active worker (handle and stop
\* flag) stay as they were and nothing is published.
MalformedDropped ==
  [][\A n \in Nodes : \A m \in msgs \cap MalformedMessages :
       (\/ HandleInit(n, m) \/ HandleElection(n, m) \/ HandleChallenge(n, m)
        \/ HandleSolution(n, m) \/ HandleResult(n, m))
       => /\ known_participants'[n] = known_participants[n]
          /\ election_votes'[n] = election_votes[n]
          /\ transactions_table'[n] = transactions_table[n]
          /\ current_transaction_id'[n] = current_transaction_id[n]
          /\ active_miner'[n] = active_miner[n]
          /\ msgs' = msgs]_vars

\* C12 -- Election liveness: with every node connected, the re-announcer and
\* the dispatcher of every node weakly fair and every publication handed to
\* every node subscribed when it was published, every node eventually reaches
\* Running.
ElectionLiveness == <>(\A n \in Cohort : state[n] = STATE_RUNNING)

\* C18 -- Init convergence without the trailing broadcasts: with every node
\* connected, the periodic init announcements handed to every subscriber and
\* the three extra broadcasts of every node lost, every node eventually
\* leaves Init for Election.
InitConvergence == <>(\A n \in Cohort : state[n] # STATE_INIT)

\* C13 -- Challenge progress: under fair scheduling, at-least-once delivery
\* and an oracle with a valid nonce for every challenge, every challenge an
\* elected controller has issued is eventually resolved in its ledger, and
\* (up to MaxTx) the controller then issues the next one.
IssuedBy(n) == {issued[n][i] : i \in 1..Len(issued[n])}

ChallengeProgress ==
  \A n \in Cohort : \A tx \in 0..MaxTx :
    (is_leader[n] /\ tx \in IssuedBy(n))
      ~> (Resolved(n, tx) /\ (tx < MaxTx => tx + 1 \in IssuedBy(n)))

\* C14 -- Own-vote immutability: all election messages published with the
\* same ClientID carry the same VoteID, and a node that has computed the
\* leader holds, for its own ClientID, the VoteID of the election messages it
\* published.
ElectionMessages == {m \in msgs : m.topic = TOPIC_ELECTION}

OwnVoteImmutable ==
  /\ \A m1, m2 \in ElectionMessages : m1.ClientID = m2.ClientID => m1.VoteID = m2.VoteID
  /\ \A n \in Running : \A m \in ElectionMessages :
       m.ClientID = client_id[n] => m.VoteID = GetVal(election_votes[n], client_id[n])

\* C15 -- Invalid solution: when the controller handles a solution message
\* for a PENDING TransactionID whose Solution fails the validity predicate, it
\* publishes the result message with Result = 0 for it and nothing else (no
\* challenge), and its ledger, transaction counter and position stay as they
\* were.
InvalidSolution ==
  [][\A n \in Nodes : \A m \in msgs :
       (/\ HandleSolution(n, m)
        /\ is_leader[n]
        /\ m.TransactionID \in Pending(n)
        /\ Sha1Zeros(m.Solution) < transactions_table[n][m.TransactionID].Challenge)
       => /\ msgs' = msgs \cup {ResultMsg(m.ClientID, m.TransactionID, m.Solution,
                                           RESULT_INVALID)}
          /\ transactions_table'[n] = transactions_table[n]
          /\ current_transaction_id'[n] = current_transaction_id[n]
          /\ issued'[n] = issued[n]
          /\ pc'[n] = pc[n]]_vars

\* C15 witness: the controller has answered Result = 0 for a TransactionID
\* that is still PENDING in its ledger.
InvalidSolutionWitness ==
  \E n \in Nodes : \E r \in msgs :
    /\ is_leader[n]
    /\ r.topic = TOPIC_RESULT /\ r.Result = RESULT_INVALID
    /\ r.TransactionID \in Pending(n)

\* C16 -- Stale or late submissions are absorbed: when the controller handles
\* a solution message whose TransactionID is not in its ledger or is already
\* resolved, no variable changes and nothing is published; and the bus never
\* holds two different results with Result = 1 for one TransactionID.
ValidResults(bus, tx) ==
  {r \in bus : r.topic = TOPIC_RESULT /\ r.Result = RESULT_VALID /\ r.TransactionID = tx}

LateAbsorbed ==
  [][/\ \A n \in Nodes : \A m \in msgs :
          (/\ HandleSolution(n, m)
           /\ is_leader[n]
           /\ m.TransactionID \notin Entries(n) \/ Resolved(n, m.TransactionID))
          => UNCHANGED vars
     /\ \A tx \in 0..(MaxTx + 1) : Cardinality(ValidResults(msgs', tx)) <= 1]_vars

\* C16 witness: the controller has resolved a TransactionID for one miner
\* while the valid solution of another miner for it is on the bus, and a
\* solution for a TransactionID it never issued is on the bus too.
LateAbsorbedWitness ==
  \E n \in Nodes : \E m, late \in msgs :
    /\ is_leader[n] /\ pc[n] = "idle"
    /\ m.topic = TOPIC_SOLUTION /\ Resolved(n, m.TransactionID)
    /\ transactions_table[n][m.TransactionID].Winner # m.ClientID
    /\ check_solution(transactions_table[n][m.TransactionID].Challenge, m.Solution)
    /\ late.topic = TOPIC_SOLUTION /\ late.TransactionID \notin Entries(n)

\* C17 -- Worker preemption: once a result with Result = 1 for TransactionID k
\* has stopped a miner's active worker that targets k and has not published
\* (the worker is alive with its flag cleared and k is resolved in the
\* ledger), no step publishes a solution of that miner for k.
PreemptedWorkerSilent ==
  [][\A n \in Nodes :
       (/\ active_miner[n] # <<>>
        /\ active_miner[n][1].alive /\ ~active_miner[n][1].running
        /\ Resolved(n, active_miner[n][1].transaction_id))
       => \A m \in msgs' \ msgs :
            ~(/\ m.topic = TOPIC_SOLUTION
              /\ m.ClientID = client_id[n]
              /\ m.TransactionID = active_miner[n][1].transaction_id)]_vars

\* C19 -- Miner ledger immutability under duplicate delivery: once an entry
\* of a miner's ledger has Winner # PENDING no step changes it, and handling a
\* challenge message for a TransactionID that is resolved in the miner's
\* ledger leaves the miner without an un-stopped worker for it.
MinerLedgerImmutable ==
  [][\A n \in Nodes : ~is_leader[n] =>
       /\ \A tx \in Entries(n) :
            Resolved(n, tx) =>
              /\ tx \in DOMAIN transactions_table'[n]
              /\ transactions_table'[n][tx] = transactions_table[n][tx]
       /\ \A m \in msgs :
            HandleChallenge(n, m) /\ Resolved(n, m.TransactionID) =>
              \/ active_miner'[n] = <<>>
              \/ ~active_miner'[n][1].running
              \/ active_miner'[n][1].transaction_id # m.TransactionID]_vars

\* C20 -- Result handling frame: handling a result message with Result = 0,
\* or one with Result = 1 whose TransactionID is not the active worker's,
\* leaves the active worker (handle and stop flag) as it was; handling a
\* result message with Result = 0 also leaves the ledger as it was.
ResultFrame ==
  [][\A n \in Nodes : \A m \in msgs :
       HandleResult(n, m) =>
         /\ (\/ m.Result = RESULT_INVALID
             \/ /\ m.Result = RESULT_VALID
                /\ active_miner[n] # <<>>
                /\ active_miner[n][1].transaction_id # m.TransactionID)
            => active_miner'[n] = active_miner[n]
         /\ m.Result = RESULT_INVALID => transactions_table'[n] = transactions_table[n]]_vars

\* C20 witness: a miner whose worker for TransactionID 1 is running with its
\* flag set has recorded the winner of TransactionID 0, while a Result = 0
\* message for TransactionID 1 is on the bus.
ResultFrameWitness ==
  \E n \in Nodes : \E r \in msgs :
    /\ active_miner[n] # <<>>
    /\ active_miner[n][1].alive /\ active_miner[n][1].running
    /\ active_miner[n][1].transaction_id = 1
    /\ Resolved(n, 0)
    /\ r.topic = TOPIC_RESULT /\ r.Result = RESULT_INVALID
    /\ r.TransactionID = active_miner[n][1].transaction_id

====
